---- MODULE Spec2Model ----
(***************************************************************************)
(* Model of the chat core of bank_portal_with_bot/app.py: the normalizer,  *)
(* the three-stage matcher, the entity extractor, the reply synthesizer    *)
(* and the self-growing corpus (in-memory list + CSV log).                 *)
(*                                                                         *)
(* Python strings are modelled as sequences of one-character strings, so   *)
(* that every string operation of the source (lower, strip, replace,       *)
(* split, substring test, regular expression) is computed character by     *)
(* character.  Intent labels are only ever compared for equality and are   *)
(* kept as plain strings.                                                  *)
(***************************************************************************)
EXTENDS Integers, Sequences, FiniteSets, TLC

VARIABLES
    user_message,   \* the utterance handed to the function under test / the turn
    entities_str,   \* the annotation handed to extract_entities
    ret,            \* <<>> or <<value>>: what the last applied function returned
    dataset,        \* the in-memory corpus (module global `dataset`)
    log,            \* the CSV file at DATASET_PATH, as a sequence of records
    loaded,         \* the corpus as load_dataset() returned it at start-up
    turn,           \* <<>> or <<record>>: the last completed chat turn
    turns,          \* chat turns / append calls handled so far
    streak,         \* number of consecutive turns that carried turn's utterance
    grown,          \* rows appended to the corpus during the current streak
    pc,             \* per thread: position inside append_to_dataset_row
    call,           \* per thread: the arguments of its append_to_dataset_row call
    file_exists     \* per thread: its local `file_exists`

vars == <<user_message, entities_str, ret, dataset, log, loaded, turn, turns, streak,
          grown, pc, call, file_exists>>

(***************************************************************************)
(* Bounds of the model.                                                    *)
(***************************************************************************)
MaxNormLen == 4     \* longest utterance typed for normalize_text
MaxTextLen == 8     \* longest utterance typed for extract_entities
MaxRows == 2        \* longest corpus loaded at start-up

(***************************************************************************)
(* Characters and the string primitives of Python used by the source.      *)
(***************************************************************************)
LowerCase == <<"a","b","c","d","e","f","g","h","i","j","k","l","m","n","o","p","q","r","s","t","u","v","w","x","y","z">>
UpperCase == <<"A","B","C","D","E","F","G","H","I","J","K","L","M","N","O","P","Q","R","S","T","U","V","W","X","Y","Z">>
Digits == {"0","1","2","3","4","5","6","7","8","9"}
Range(s) == {s[i] : i \in 1..Len(s)}
Letters == Range(LowerCase) \cup Range(UpperCase)

IsDigit(c) == c \in Digits
IsAlpha(c) == c \in Letters
\* str.strip() and str.split() treat blanks and tabs (among others) as whitespace
Spaces == {" ", "\t"}
IsSpace(c) == c \in Spaces
\* the regular-expression class \w, which decides where \b holds
IsWord(c) == IsDigit(c) \/ IsAlpha(c) \/ c = "_"

ToLower(c) == IF \E i \in 1..26 : UpperCase[i] = c
              THEN LowerCase[CHOOSE i \in 1..26 : UpperCase[i] = c] ELSE c
ToUpper(c) == IF \E i \in 1..26 : LowerCase[i] = c
              THEN UpperCase[CHOOSE i \in 1..26 : LowerCase[i] = c] ELSE c
lower(s) == [i \in 1..Len(s) |-> ToLower(s[i])]
upper(s) == [i \in 1..Len(s) |-> ToUpper(s[i])]

\* s.strip()
strip(s) ==
    LET keep == {i \in 1..Len(s) : ~IsSpace(s[i])}
    IN  IF keep = {} THEN <<>>
        ELSE SubSeq(s, CHOOSE i \in keep : \A j \in keep : i <= j,
                       CHOOSE i \in keep : \A j \in keep : j <= i)

\* needle in hay
Contains(hay, needle) ==
    \E i \in 0..(Len(hay) - Len(needle)) : SubSeq(hay, i + 1, i + Len(needle)) = needle

\* s.replace(old, new): leftmost non-overlapping occurrences, old non-empty
RECURSIVE replace(_, _, _)
replace(s, old, new) ==
    IF Len(s) < Len(old) THEN s
    ELSE IF SubSeq(s, 1, Len(old)) = old
         THEN new \o replace(SubSeq(s, Len(old) + 1, Len(s)), old, new)
         ELSE <<s[1]>> \o replace(Tail(s), old, new)

\* length of the longest prefix of s made of characters of the set chars
RunLen(s, chars) ==
    LET stop == {i \in 1..Len(s) : s[i] \notin chars}
    IN  IF stop = {} THEN Len(s)
        ELSE (CHOOSE i \in stop : \A j \in stop : i <= j) - 1
\* length of the longest prefix of s free of the characters of the set seps
RunUntil(s, seps) ==
    LET stop == {i \in 1..Len(s) : s[i] \in seps}
    IN  IF stop = {} THEN Len(s)
        ELSE (CHOOSE i \in stop : \A j \in stop : i <= j) - 1
Drop(s, n) == SubSeq(s, n + 1, Len(s))
Take(s, n) == SubSeq(s, 1, n)

\* s.split(): the whitespace-separated words of s
RECURSIVE split(_)
split(s) ==
    IF s = <<>> THEN <<>>
    ELSE IF IsSpace(s[1]) THEN split(Tail(s))
         ELSE LET n == RunUntil(s, Spaces)
              IN  <<Take(s, n)>> \o split(Drop(s, n))

\* sep.join(parts)
RECURSIVE join(_, _)
join(sep, parts) ==
    IF parts = <<>> THEN <<>>
    ELSE IF Len(parts) = 1 THEN parts[1]
         ELSE parts[1] \o sep \o join(sep, Tail(parts))

\* s.split(c) for a one-character separator: Len(result) = 1 + occurrences of c
RECURSIVE split_on(_, _)
split_on(s, c) ==
    LET n == RunUntil(s, {c})
    IN  IF n = Len(s) THEN <<s>>
        ELSE <<Take(s, n)>> \o split_on(Drop(s, n + 1), c)

\* s.split(':', 1) on a string that holds a colon: <<before, after>>
split_colon(s) ==
    LET n == RunUntil(s, {":"})
    IN  <<Take(s, n), Drop(s, n + 1)>>

\* re.findall(r'\d+', s): the maximal digit runs of s, in order
RECURSIVE findall_digits(_)
findall_digits(s) ==
    IF s = <<>> THEN <<>>
    ELSE IF ~IsDigit(s[1]) THEN findall_digits(Tail(s))
         ELSE LET n == RunLen(s, Digits)
              IN  <<Take(s, n)>> \o findall_digits(Drop(s, n))

\* ''.join(parts)
RECURSIVE concat(_)
concat(parts) == IF parts = <<>> THEN <<>> ELSE parts[1] \o concat(Tail(parts))

\* re.search(r'\d+', s) is not None
has_digit(s) == \E i \in 1..Len(s) : IsDigit(s[i])

(***************************************************************************)
(* normalize_text                                                          *)
(***************************************************************************)
Allowed == Range(LowerCase) \cup Digits \cup {" "}
IsAllowed(c) == c \in Allowed

\* the body of normalize_text without its last step, ' '.join(s.split())
normalize_text_nocollapse(s) ==
    IF s = <<>> THEN <<>>
    ELSE LET s1 == strip(lower(s))
             s2 == replace(replace(replace(s1,
                       <<"w","h","a","t","'","s">>, <<"w","h","a","t"," ","i","s">>),
                       <<"i","t","'","s">>, <<"i","t"," ","i","s">>),
                       <<"i","'","m">>, <<"i"," ","a","m">>)
         IN  SelectSeq(s2, IsAllowed)

normalize_text(s) ==
    IF s = <<>> THEN <<>>
    ELSE LET s1 == strip(lower(s))
             s2 == replace(replace(replace(s1,
                       <<"w","h","a","t","'","s">>, <<"w","h","a","t"," ","i","s">>),
                       <<"i","t","'","s">>, <<"i","t"," ","i","s">>),
                       <<"i","'","m">>, <<"i"," ","a","m">>)
             s3 == SelectSeq(s2, IsAllowed)
         IN  join(<<" ">>, split(s3))

(***************************************************************************)
(* Values shared by the specifications.                                    *)
(***************************************************************************)
None == <<>>
Some(x) == <<x>>
NoThreads == <<>>

\* The state outside the part a specification exercises.
Idle ==
    /\ entities_str = <<>>
    /\ ret = None
    /\ dataset = <<>>
    /\ log = <<>>
    /\ loaded = <<>>
    /\ turn = None
    /\ turns = 0
    /\ streak = 0
    /\ grown = 0
    /\ pc = NoThreads
    /\ call = NoThreads
    /\ file_exists = NoThreads

\* The caller types one more character of the utterance.
Type(alphabet, maxlen) ==
    /\ Len(user_message) < maxlen
    /\ \E c \in alphabet : user_message' = Append(user_message, c)
    /\ ret' = None
    /\ entities_str' = <<>>
    /\ UNCHANGED <<dataset, log, loaded, turn, turns, streak, grown, pc, call, file_exists>>

(***************************************************************************)
(* SpecNorm: normalize_text applied to typed and sample utterances.        *)
(***************************************************************************)
NormAlphabet == {"I", "'", "m", " ", "?", "1", "\t"}
WhatsMyBalance == <<"W","h","a","t","'","s"," ","m","y"," ","B","a","l","a","n","c","e","?">>
WhatIsMyBalance == <<"w","h","a","t"," ","i","s"," ","m","y"," ","b","a","l","a","n","c","e">>
NormSamples ==
    { WhatsMyBalance, WhatIsMyBalance,
      <<" ","I","t","'","s"," "," ","O","K","!"," ">>,
      <<"C","h","e","c","k"," ","B","a","l","a","n","c","e","!">> }

InitNorm ==
    /\ user_message \in {<<>>} \cup NormSamples
    /\ Idle

Normalize ==
    /\ ret' = Some(normalize_text(user_message))
    /\ UNCHANGED <<user_message, entities_str, dataset, log, loaded, turn, turns, streak,
                   grown, pc, call, file_exists>>

NextNorm == Type(NormAlphabet, MaxNormLen) \/ Normalize

SpecNorm == InitNorm /\ [][NextNorm]_vars

\* C9: normalize_text is idempotent (normalizing its own output changes
\* nothing), insensitive to the case of the input and to trailing
\* punctuation, and "What's my Balance?" normalizes to the same string as
\* "what is my balance".
NormalizeIdempotent ==
    ret # None =>
        /\ normalize_text(ret[1]) = ret[1]
        /\ normalize_text(upper(user_message)) = ret[1]
        /\ normalize_text(lower(user_message)) = ret[1]
        /\ normalize_text(user_message \o <<"?">>) = ret[1]
        /\ (user_message = WhatsMyBalance => ret[1] = normalize_text(WhatIsMyBalance))
        /\ (user_message = WhatsMyBalance => ret[1] = WhatIsMyBalance)

\* a normalization that dropped punctuation, expanded a contraction and
\* collapsed an inner run of blanks has been computed
NormalizeWitness ==
    /\ ret # None
    /\ user_message = WhatsMyBalance
    /\ ret[1] = WhatIsMyBalance

(***************************************************************************)
(* extract_entities                                                        *)
(***************************************************************************)
ACCOUNT_NUMBER == <<"A","C","C","O","U","N","T","_","N","U","M","B","E","R">>
MONEY == <<"M","O","N","E","Y">>
PERSON == <<"P","E","R","S","O","N">>
AccountMinDigits == 6
PersonMinLetters == 2

\* A dict with keys among "account_number", "amount", "person".
EmptyDict == <<>>
Put(d, k, v) == [x \in (DOMAIN d) \cup {k} |-> IF x = k THEN v ELSE d[x]]
Has(d, k) == k \in DOMAIN d
\* d.get(k, '')
Get(d, k) == IF k \in DOMAIN d THEN d[k] ELSE <<>>

\* re.search(r'\b(C{n,})\b', text) for a character class C inside \w: the
\* first maximal run of characters of the set C, of length >= n, with no word character on either
\* side; <<>> when there is none, <<run>> otherwise.
search_run(text, C, n) ==
    LET starts == {i \in 1..Len(text) :
                     /\ text[i] \in C
                     /\ (i = 1 \/ ~IsWord(text[i - 1]))
                     /\ LET m == RunLen(Drop(text, i - 1), C)
                        IN  /\ m >= n
                            /\ (i + m > Len(text) \/ ~IsWord(text[i + m]))}
    IN  IF starts = {} THEN None
        ELSE LET i == CHOOSE x \in starts : \A y \in starts : x <= y
             IN  Some(Take(Drop(text, i - 1), RunLen(Drop(text, i - 1), C)))

\* lines 151-162: the explicit KEY:VALUE segments of the annotation
RECURSIVE explicit_entities(_, _)
explicit_entities(segs, entities) ==
    IF segs = <<>> THEN entities
    ELSE LET ent == segs[1]
             kv == split_colon(ent)
             key == upper(strip(kv[1]))
             val == strip(kv[2])
             e2 == IF ~Contains(ent, <<":">>) THEN entities
                   ELSE IF key = ACCOUNT_NUMBER /\ val # <<>>
                        THEN Put(entities, "account_number", val)
                   ELSE IF key = MONEY /\ val # <<>>
                        THEN Put(entities, "amount", val)
                   ELSE IF key = PERSON /\ val # <<>>
                        THEN Put(entities, "person", val)
                   ELSE entities
         IN  explicit_entities(Tail(segs), e2)

\* lines 165-176: regex fallback on the utterance for the keys still unset
fallback_entities(text, entities) ==
    LET acct == search_run(text, Digits, AccountMinDigits)
        e1 == IF ~Has(entities, "account_number") /\ acct # None
              THEN Put(entities, "account_number", acct[1]) ELSE entities
        amt == search_run(text, Digits, 1)
        e2 == IF ~Has(e1, "amount") /\ amt # None
              THEN Put(e1, "amount", amt[1]) ELSE e1
        per == search_run(text, Letters, PersonMinLetters)
        e3 == IF ~Has(e2, "person") /\ per # None
              THEN Put(e2, "person", per[1]) ELSE e2
    IN  e3

\* extract_entities without the early return of lines 147-148
extract_entities_always_fallback(text, ann) ==
    fallback_entities(text, explicit_entities(split_on(ann, "|"), EmptyDict))

extract_entities(text, ann) ==
    IF ann = <<>> THEN EmptyDict
    ELSE fallback_entities(text, explicit_entities(split_on(ann, "|"), EmptyDict))

(***************************************************************************)
(* SpecExtract: extract_entities applied to typed and sample utterances    *)
(* under a handful of annotations.                                         *)
(***************************************************************************)
ExtractAlphabet == {"1", " ", "a"}
MyAccount == <<"m","y"," ","a","c","c","o","u","n","t"," ","1","2","3","4","5","6","7","8","9">>
ExtractSamples ==
    { MyAccount,
      <<"b","a","l","a","n","c","e"," ","f","o","r"," ","1","2","3","4","5","6">>,
      <<"1","2"," ","1","2","3","4","5","6","7">>,
      <<"a","c","c","t","_","1","2","3","4","5","6","7"," ","9","9">> }
Annotations ==
    { <<>>,
      ACCOUNT_NUMBER,
      <<"m","o","n","e","y",":"," ","7"," ","|","j","u","n","k">>,
      ACCOUNT_NUMBER \o <<":","1","2","3","4","5","6","|">> \o MONEY \o <<":","5","0","0">>,
      <<"a","c","c","o","u","n","t","_","n","u","m","b","e","r",":","4","2","|">> \o PERSON \o <<":","b","o","b">> }

InitExtract ==
    /\ user_message \in {<<>>} \cup ExtractSamples
    /\ Idle

Extract ==
    /\ ret = None
    /\ \E a \in Annotations :
          /\ entities_str' = a
          /\ ret' = Some(extract_entities(user_message, a))
    /\ UNCHANGED <<user_message, dataset, log, loaded, turn, turns, streak, grown, pc,
                   call, file_exists>>

NextExtract == Type(ExtractAlphabet, MaxTextLen) \/ Extract

SpecExtract == InitExtract /\ [][NextExtract]_vars

\* The standalone digit runs of s, as <<first, last>> index pairs: maximal
\* runs of digits with no letter, digit or underscore on either side.
StandaloneRuns(s) ==
    {p \in (1..Len(s)) \X (1..Len(s)) :
        /\ p[1] <= p[2]
        /\ \A k \in p[1]..p[2] : IsDigit(s[k])
        /\ (p[1] = 1 \/ ~IsWord(s[p[1] - 1]))
        /\ (p[2] = Len(s) \/ ~IsWord(s[p[2] + 1]))}
FirstRun(s, n) ==
    LET R == {p \in StandaloneRuns(s) : p[2] - p[1] + 1 >= n}
    IN  IF R = {} THEN None
        ELSE LET p == CHOOSE x \in R : \A y \in R : x[1] <= y[1]
             IN  Some(SubSeq(s, p[1], p[2]))
\* the annotation gives key K an explicit, non-empty value
Annotated(ann, K) ==
    \E i \in 1..Len(split_on(ann, "|")) :
        LET seg == split_on(ann, "|")[i]
        IN  /\ Contains(seg, <<":">>)
            /\ upper(strip(split_colon(seg)[1])) = K
            /\ strip(split_colon(seg)[2]) # <<>>

\* C5 (as stated): with an empty entities string, every utterance holding a
\* standalone run of six or more digits gets account_number and amount both
\* set to that digit run.
FallbackOnEmptyAnnotation ==
    (ret # None /\ entities_str = <<>> /\ FirstRun(user_message, AccountMinDigits) # None) =>
        /\ Has(ret[1], "account_number") /\ Has(ret[1], "amount")
        /\ ret[1]["account_number"] = ret[1]["amount"]
        /\ Some(ret[1]["account_number"]) = FirstRun(user_message, AccountMinDigits)

\* C5 (amended): an empty entities string yields no entities at all; under a
\* non-empty annotation that gives neither ACCOUNT_NUMBER nor MONEY a value,
\* account_number is the first standalone run of six or more digits, amount
\* is the first standalone digit run, and the two coincide whenever that
\* first standalone digit run has six or more digits.
FallbackNeedsAnnotation ==
    ret # None =>
        /\ entities_str = <<>> => ret[1] = EmptyDict
        /\ (/\ entities_str # <<>>
            /\ ~Annotated(entities_str, ACCOUNT_NUMBER)
            /\ ~Annotated(entities_str, MONEY)) =>
              LET acct == FirstRun(user_message, AccountMinDigits)
                  amt == FirstRun(user_message, 1)
              IN  /\ Has(ret[1], "account_number") <=> acct # None
                  /\ Has(ret[1], "amount") <=> amt # None
                  /\ acct # None => ret[1]["account_number"] = acct[1]
                  /\ amt # None => ret[1]["amount"] = amt[1]
                  /\ (amt # None /\ Len(amt[1]) >= AccountMinDigits) =>
                        ret[1]["account_number"] = ret[1]["amount"]

\* "my account 123456789" under the value-less annotation ACCOUNT_NUMBER
\* has both keys set to 123456789
FallbackWitness ==
    /\ ret # None
    /\ user_message = MyAccount
    /\ entities_str = ACCOUNT_NUMBER
    /\ Get(ret[1], "account_number") = <<"1","2","3","4","5","6","7","8","9">>
    /\ Get(ret[1], "amount") = <<"1","2","3","4","5","6","7","8","9">>

(***************************************************************************)
(* find_intent_response                                                    *)
(***************************************************************************)
Row(t, i, r, e) == [text |-> t, intent |-> i, response |-> r, entities |-> e]
\* the header line csv.writer puts first in the file (line 334)
Header == Row(<<"t","e","x","t">>, "intent", <<"r","e","s","p","o","n","s","e">>,
              <<"e","n","t","i","t","i","e","s">>)
\* the CSV file that holds exactly these rows
LogOf(rows) == IF rows = <<>> THEN <<>> ELSE <<Header>> \o rows
\* the dict find_intent_response returns for a row
Match(row) == [intent |-> row.intent, response |-> row.response, entities |-> row.entities]

\* lines 87-95: the first row whose normalized text equals the normalized message
RECURSIVE exact_stage(_, _)
exact_stage(rows, message_norm) ==
    IF rows = <<>> THEN None
    ELSE LET row_text == lower(strip(rows[1].text))
             row_norm == normalize_text(row_text)
         IN  IF row_norm # <<>> /\ row_norm = message_norm
             THEN Some(Match(rows[1]))
             ELSE exact_stage(Tail(rows), message_norm)

\* line 110 as the numeric stage would be with "equals the concatenation"
numeric_compare_equal(val, message, message_digits) ==
    \/ Contains(message, val)
    \/ val = concat(message_digits)
    \/ \E k \in 1..Len(message_digits) : val = message_digits[k]

\* line 110: val in user_message or val in digits_concat or any(val == d ...)
numeric_compare(val, message, message_digits) ==
    \/ Contains(message, val)
    \/ Contains(concat(message_digits), val)
    \/ \E k \in 1..Len(message_digits) : val = message_digits[k]

\* lines 101-110: does this row match the message in the numeric stage
numeric_match(row, message) ==
    LET entities == strip(row.entities)
        segs == split_on(entities, "|")
        message_digits == findall_digits(message)
    IN  /\ (Contains(entities, ACCOUNT_NUMBER) \/ Contains(entities, MONEY))
        /\ \E k \in 1..Len(segs) :
              /\ Contains(segs[k], <<":">>)
              /\ LET val == strip(split_colon(segs[k])[2])
                 IN  /\ val # <<>>
                     /\ has_digit(val)
                     /\ numeric_compare(val, message, message_digits)

\* lines 100-115
RECURSIVE numeric_stage(_, _)
numeric_stage(rows, message) ==
    IF rows = <<>> THEN None
    ELSE IF numeric_match(rows[1], message) THEN Some(Match(rows[1]))
         ELSE numeric_stage(Tail(rows), message)

\* line 131 with >= in place of >: a later row of equal score replaces the best
overlap_better_or_equal(score, best_score) == score >= best_score

\* line 131: if score > best_score
overlap_better(score, best_score) == score > best_score

\* lines 121-133: <<best_score, best_row>> after the loop over rows
RECURSIVE overlap_loop(_, _, _)
overlap_loop(rows, msg_tokens, best) ==
    IF rows = <<>> THEN best
    ELSE LET row_text == lower(strip(rows[1].text))
             row_norm == normalize_text(row_text)
             row_tokens == Range(split(row_norm))
             score == Cardinality(msg_tokens \cap row_tokens)
         IN  IF row_norm = <<>> THEN overlap_loop(Tail(rows), msg_tokens, best)
             ELSE IF overlap_better(score, best[1])
                  THEN overlap_loop(Tail(rows), msg_tokens, <<score, Some(rows[1])>>)
                  ELSE overlap_loop(Tail(rows), msg_tokens, best)

\* lines 118-142
overlap_stage(rows, message_norm) ==
    LET best == overlap_loop(rows, Range(split(message_norm)), <<0, None>>)
    IN  IF best[2] # None /\ best[1] >= 1 THEN Some(Match(best[2][1])) ELSE None

\* None, or Some of the {intent, response, entities} dict of the matched row
find_intent_response(message, rows) ==
    IF message = <<>> THEN None
    ELSE LET message_norm == normalize_text(message)
             s1 == exact_stage(rows, message_norm)
             s2 == numeric_stage(rows, message)
         IN  IF s1 # None THEN s1
             ELSE IF s2 # None THEN s2
             ELSE overlap_stage(rows, message_norm)

(***************************************************************************)
(* SpecMatch: a corpus is loaded row by row, then one utterance is         *)
(* resolved against it.                                                    *)
(***************************************************************************)
Empty == <<>>
Acct123456Money500 ==
    ACCOUNT_NUMBER \o <<":","1","2","3","4","5","6","|">> \o MONEY \o <<":","5","0","0">>
BalanceFor123456 == <<"b","a","l","a","n","c","e"," ","f","o","r"," ","1","2","3","4","5","6">>
TellMeAboutLoan == <<"t","e","l","l"," ","m","e"," ","a","b","o","u","t"," ","l","o","a","n">>
LoanCard == <<"l","o","a","n"," ","c","a","r","d">>
Twelve34 == <<"1","2"," ","3","4">>

CheckBalanceRow ==
    Row(<<"c","h","e","c","k"," ","b","a","l","a","n","c","e">>, "check_balance",
        <<"S","u","r","e">>, Empty)
AccountRow == Row(<<"b","a","l","a","n","c","e">>, "check_balance", Empty, Acct123456Money500)
LoanRow ==
    Row(<<"l","o","a","n"," ","i","n","q","u","i","r","y"," ","d","e","t","a","i","l","s">>,
        "loan_inquiry", <<"L","o","a","n","s">>, Empty)
CardRow ==
    Row(<<"c","a","r","d"," ","b","l","o","c","k"," ","r","e","q","u","e","s","t">>,
        "block_card", <<"B","l","o","c","k","e","d">>, Empty)
Money23Row == Row(<<"?">>, "transfer_money", Empty, MONEY \o <<":"," ","2","3">>)
PersonRow ==
    Row(<<"p","a","y">>, "transfer_money", Empty,
        PERSON \o <<":","b","o","b","7","|">> \o MONEY \o <<"|","1","2">>)
RowPool == {CheckBalanceRow, AccountRow, LoanRow, CardRow, Money23Row, PersonRow}

MatchUtterances ==
    { Empty,
      <<"C","h","e","c","k"," ","B","a","l","a","n","c","e","!">>,
      BalanceFor123456, TellMeAboutLoan, LoanCard, Twelve34,
      <<"2","3">>, <<"1","2">>,
      <<"h","e","l","l","o">>, <<"?","!">>,
      <<"p","a","y"," ","b","o","b","7"," ","n","o","w">> }

InitMatch ==
    /\ user_message \in MatchUtterances
    /\ Idle

\* load_dataset (lines 35-49) appends one more row of the CSV file
LoadRow ==
    /\ ret = None
    /\ turns = 0
    /\ Len(dataset) < MaxRows
    /\ \E r \in RowPool :
          /\ dataset' = Append(dataset, r)
          /\ loaded' = Append(loaded, r)
          /\ log' = LogOf(Append(dataset, r))
    /\ UNCHANGED <<user_message, entities_str, ret, turn, turns, streak, grown, pc,
                   call, file_exists>>

Find ==
    /\ ret = None
    /\ ret' = Some(find_intent_response(user_message, dataset))
    /\ UNCHANGED <<user_message, entities_str, dataset, log, loaded, turn, turns, streak,
                   grown, pc, call, file_exists>>

NextMatch == LoadRow \/ Find

SpecMatch == InitMatch /\ [][NextMatch]_vars

\* the digits of s in order: the concatenation of all its digit runs
DigitsOf(s) == SelectSeq(s, IsDigit)
\* the maximal digit runs of s, as strings
DigitRuns(s) ==
    {SubSeq(s, i, j) : <<i, j>> \in
        {p \in (1..Len(s)) \X (1..Len(s)) :
            /\ p[1] <= p[2]
            /\ \A k \in p[1]..p[2] : IsDigit(s[k])
            /\ (p[1] = 1 \/ ~IsDigit(s[p[1] - 1]))
            /\ (p[2] = Len(s) \/ ~IsDigit(s[p[2] + 1]))}}
\* the values of the KEY:VALUE segments of an annotation that hold a digit
NumericValues(ann) ==
    {strip(split_colon(seg)[2]) : seg \in
        {x \in Range(split_on(strip(ann), "|")) :
            Contains(x, <<":">>) /\ has_digit(strip(split_colon(x)[2]))}}
Mentions(ann) == Contains(ann, ACCOUNT_NUMBER) \/ Contains(ann, MONEY)

\* C6 (as stated): a row matches in the numeric stage iff one of its values
\* is a substring of the utterance, or equals the concatenation of all digit
\* runs, or equals one digit run.
NumericMatchByEquality ==
    \A i \in 1..Len(dataset) :
        numeric_match(dataset[i], user_message) <=>
            /\ Mentions(dataset[i].entities)
            /\ \E val \in NumericValues(dataset[i].entities) :
                  \/ Contains(user_message, val)
                  \/ val = DigitsOf(user_message)
                  \/ val \in DigitRuns(user_message)

\* C6 (amended): a row matches in the numeric stage iff its annotation
\* mentions ACCOUNT_NUMBER or MONEY and one of its KEY:VALUE segments has a
\* value containing a digit that is a substring of the raw utterance or a
\* substring of the concatenation of all digit runs of the utterance.
NumericMatchBySubstring ==
    \A i \in 1..Len(dataset) :
        numeric_match(dataset[i], user_message) <=>
            /\ Mentions(dataset[i].entities)
            /\ \E val \in NumericValues(dataset[i].entities) :
                  \/ Contains(user_message, val)
                  \/ Contains(DigitsOf(user_message), val)

\* value 23 spans the two digit runs of "12 34": the row is returned
NumericWitness ==
    /\ user_message = Twelve34
    /\ dataset # <<>>
    /\ dataset[1] = Money23Row
    /\ ret = Some(Some(Match(Money23Row)))

\* what qualifies a row in each stage, stated on the row alone
ExactRows == {i \in 1..Len(dataset) :
                 /\ normalize_text(dataset[i].text) # <<>>
                 /\ normalize_text(dataset[i].text) = normalize_text(user_message)}
NumericRows == {i \in 1..Len(dataset) :
                   /\ Mentions(dataset[i].entities)
                   /\ \E val \in NumericValues(dataset[i].entities) :
                         \/ Contains(user_message, val)
                         \/ Contains(DigitsOf(user_message), val)}
Overlap(i) == Cardinality(Range(split(normalize_text(user_message)))
                          \cap Range(split(normalize_text(dataset[i].text))))
OverlapRows == {i \in 1..Len(dataset) :
                   /\ Overlap(i) >= 1
                   /\ \A j \in 1..Len(dataset) : Overlap(j) <= Overlap(i)}
First(S) == CHOOSE i \in S : \A j \in S : i <= j

IOOutcomes == {"ok", "stat", "open", "torn"}

\* what is left of a row whose write stopped part-way
Torn(row) == Row(row.text, "", <<>>, <<>>)

\* lines 326-328 comparing the response as well
is_duplicate_with_response(rows, text, intent, response, ents) ==
    \E k \in 1..Len(rows) :
        /\ rows[k].text = text
        /\ rows[k].intent = intent
        /\ rows[k].response = response
        /\ rows[k].entities = ents

\* lines 326-328 comparing with the first row only
is_duplicate_first_row_only(rows, text, intent, response, ents) ==
    /\ rows # <<>>
    /\ rows[1].text = text
    /\ rows[1].intent = intent
    /\ rows[1].entities = ents

\* lines 326-328: an in-memory row with the same text, intent and entities
is_duplicate(rows, text, intent, response, ents) ==
    \E k \in 1..Len(rows) :
        /\ rows[k].text = text
        /\ rows[k].intent = intent
        /\ rows[k].entities = ents

\* lines 331-335: the records one call writes
records_to_write(exists, row) == IF exists THEN <<row>> ELSE <<Header, row>>

\* status is "added" (returns True), "duplicate" (returns False) or "raised"
append_to_dataset_row(text, intent, response, ents, rows, file, io) ==
    LET exists == file # <<>>
        row == Row(text, intent, response, ents)
    IN  IF io = "stat"
        THEN [status |-> "raised", dataset |-> rows, log |-> file]
        ELSE IF is_duplicate(rows, text, intent, response, ents)
        THEN [status |-> "duplicate", dataset |-> rows, log |-> file]
        ELSE IF io = "open"
        THEN [status |-> "raised", dataset |-> rows, log |-> file]
        ELSE IF io = "torn"
        THEN [status |-> "raised", dataset |-> rows,
              log |-> file \o records_to_write(exists, Torn(row))]
        ELSE [status |-> "added", dataset |-> Append(rows, row),
              log |-> file \o records_to_write(exists, row)]

(***************************************************************************)
(* chat                                                                    *)
(***************************************************************************)
\* stands for the money-bag emoji that opens the synthesized reply
BalancePrefix == <<"$"," ","Y","o","u","r"," ","b","a","l","a","n","c","e"," ","i","s"," ">>
Balance(x) == BalancePrefix \o x \o <<".">>
OutOfScopeReply == <<"I"," ","c","a","n"," ","o","n","l","y"," ","a","s","s","i","s","t"," ","w","i","t","h"," ","b","a","n","k","i","n","g"," ","q","u","e","s","t","i","o","n","s","."," ","T","r","y"," ","a","s","k","i","n","g"," ","a","b","o","u","t"," ","b","a","l","a","n","c","e",","," ","t","r","a","n","s","f","e","r","s",","," ","l","o","a","n","s",","," ","o","r"," ","c","a","r","d","s",".">>
MoneyColon == MONEY \o <<":">>
AccountColon == ACCOUNT_NUMBER \o <<":">>

\* re.search(r'MONEY:(\d+)', ents): None or Some(the captured digits)
search_money(ents) ==
    LET hits == {i \in 1..Len(ents) :
                    /\ i + Len(MoneyColon) <= Len(ents)
                    /\ SubSeq(ents, i, i + Len(MoneyColon) - 1) = MoneyColon
                    /\ IsDigit(ents[i + Len(MoneyColon)])}
    IN  IF hits = {} THEN None
        ELSE LET i == CHOOSE x \in hits : \A y \in hits : x <= y
                 rest == Drop(ents, i + Len(MoneyColon) - 1)
             IN  Some(Take(rest, RunLen(rest, Digits)))

\* lines 386-394: the MONEY digits of the first row pairing acct with a value
RECURSIVE pair_money(_, _)
pair_money(rows, acct) ==
    IF rows = <<>> THEN None
    ELSE LET ents == rows[1].entities
             m == search_money(ents)
         IN  IF Contains(ents, AccountColon \o acct) /\ Contains(ents, MoneyColon) /\ m # None
             THEN m
             ELSE pair_money(Tail(rows), acct)

\* line 375 ignoring the canned response
canned_reply_dropped(result) == <<>>

\* line 375: bot_reply = (result.get('response') or '').strip()
canned_reply(result) == strip(result.response)

\* lines 378-394: None, or Some(digits) when the reply is still empty, no
\* amount was extracted and a row pairs the extracted account with MONEY
paired_money(r0, extracted, rows) ==
    IF r0 = <<>> /\ Get(extracted, "amount") = <<>> /\ Get(extracted, "account_number") # <<>>
    THEN pair_money(rows, Get(extracted, "account_number"))
    ELSE None

\* lines 378-394: the reply after the amount and the pairing fallbacks
entity_reply(r0, extracted, paired) ==
    IF r0 # <<>> THEN r0
    ELSE IF Get(extracted, "amount") # <<>> THEN Balance(extracted["amount"])
    ELSE IF paired # None THEN Balance(paired[1])
    ELSE <<>>

\* lines 397-400: final fallback on the first digit run of the message
digit_reply(r1, reply_digits) ==
    IF r1 = <<>> /\ reply_digits # <<>> THEN Balance(reply_digits[1]) ELSE r1

synthesize_paired(r0, extracted, paired, message) ==
    << digit_reply(entity_reply(r0, extracted, paired), findall_digits(message)),
       IF paired # None THEN Put(extracted, "amount", paired[1]) ELSE extracted >>

synthesize_from(r0, extracted, message, rows) ==
    synthesize_paired(r0, extracted, paired_money(r0, extracted, rows), message)

\* lines 375-400: <<bot_reply, entities>> for a matched turn
synthesize(result, extracted, message, rows) ==
    synthesize_from(canned_reply(result), extracted, message, rows)

\* lines 426-431: '|'.join(add_entities)
joined_entities(entities) ==
    join(<<"|">>,
         (IF Has(entities, "amount") THEN <<MoneyColon \o entities["amount"]>> ELSE <<>>)
         \o (IF Has(entities, "account_number")
             THEN <<AccountColon \o entities["account_number"]>> ELSE <<>>))

\* lines 434-436: MONEY:<first digit run of the reply> when nothing was joined
entities_or_reply_digits(joined, reply_digits) ==
    IF joined = <<>> /\ reply_digits # <<>> THEN MoneyColon \o reply_digits[1] ELSE joined

\* lines 426-436: the annotation stored with the turn
turn_entities_str(entities, bot_reply) ==
    entities_or_reply_digits(joined_entities(entities), findall_digits(bot_reply))

\* what the handler returns and leaves behind; raised is whether an
\* exception left the handler (lines 440-444 swallow those of the append)
turn_result(message, result, extracted, intent, reply, ents, app) ==
    [message |-> message, result |-> result, extracted |-> extracted,
     intent |-> intent, reply |-> reply, entities_str |-> ents,
     append |-> app.status, raised |-> FALSE,
     dataset |-> app.dataset, log |-> app.log]

\* lines 438-444: append the turn when it carries an annotation
chat_append(message, result, extracted, syn, ents, rows, file, io) ==
    turn_result(message, result, extracted, result[1].intent, syn[1], ents,
                IF ents # <<>>
                THEN append_to_dataset_row(message, result[1].intent, syn[1], ents,
                                           rows, file, io)
                ELSE [status |-> "skipped", dataset |-> rows, log |-> file])

chat_reply(message, result, extracted, syn, rows, file, io) ==
    chat_append(message, result, extracted, syn, turn_entities_str(syn[2], syn[1]),
                rows, file, io)

\* lines 367-444: the matched branch
chat_matched(message, result, extracted, rows, file, io) ==
    chat_reply(message, result, extracted,
               synthesize(result[1], extracted, message, rows), rows, file, io)

\* lines 359-457: the turn once the matcher has answered
chat_result(message, result, rows, file, io) ==
    IF result = None
    THEN turn_result(message, None, EmptyDict, "out_of_scope", OutOfScopeReply, <<>>,
                     [status |-> "skipped", dataset |-> rows, log |-> file])
    ELSE chat_matched(message, result, extract_entities(message, result[1].entities),
                      rows, file, io)

chat_message(message, rows, file, io) ==
    chat_result(message, find_intent_response(message, rows), rows, file, io)

\* The handler of POST /api/chat for a logged-in user (lines 346-463).  The
\* per-user history in user_data is written but never read by the matcher,
\* the extractor or the corpus, and is left out.
chat(raw, rows, file, io) == chat_message(strip(raw), rows, file, io)

(***************************************************************************)
(* SpecChat: sequential chat turns over a corpus loaded at start-up.       *)
(***************************************************************************)
MaxTurns == 3

Call1800 == <<"C","a","l","l"," ","1","8","0","0">>
MyBalance == <<"m","y"," ","b","a","l","a","n","c","e">>
HelpRow == Row(<<"b","a","l","a","n","c","e">>, "check_balance", Call1800, Empty)
AcctOnlyRow == Row(MyBalance, "check_balance", Empty, AccountColon \o <<"1","2","3","4","5","6">>)
BadMoneyRow ==
    Row(<<"o","l","d">>, "check_balance", Empty,
        AccountColon \o <<"1","2","3","4","5","6","|">> \o MoneyColon \o <<"n","/","a">>)
UnderscoreRow == Row(<<"a","c","c","t","5">>, "card_inquiry", Empty, PERSON)
HelloRow == Row(<<"h","e","l","l","o">>, "greet", Empty, Empty)

ChatCorpora ==
    { <<>>,
      <<CheckBalanceRow, AccountRow>>,
      <<HelpRow>>,
      <<AcctOnlyRow, BadMoneyRow, AccountRow>>,
      <<AcctOnlyRow, BadMoneyRow>>,
      <<UnderscoreRow, HelloRow>> }
ChatUtterances ==
    { BalanceFor123456, MyBalance,
      <<"a","c","c","t","_","5">>,
      <<" ","h","e","l","l","o"," ">> }

InitChat ==
    /\ user_message = <<>>
    /\ entities_str = <<>>
    /\ ret = None
    /\ dataset \in ChatCorpora
    /\ loaded = dataset
    /\ log = LogOf(dataset)
    /\ turn = None
    /\ turns = 0
    /\ streak = 0
    /\ grown = 0
    /\ pc = NoThreads
    /\ call = NoThreads
    /\ file_exists = NoThreads

Chat ==
    /\ turns < MaxTurns
    /\ \E raw \in ChatUtterances, io \in IOOutcomes :
      \E t \in {chat(raw, dataset, log, io)} :
          LET failed == t.append = "raised"
              continues == turn # None /\ streak > 0 /\ turn[1].message = t.message
          IN  /\ user_message' = raw
              /\ dataset' = t.dataset
              /\ log' = t.log
              /\ turn' = Some([message |-> t.message, result |-> t.result,
                               extracted |-> t.extracted, intent |-> t.intent,
                               reply |-> t.reply, entities_str |-> t.entities_str,
                               append |-> t.append, raised |-> t.raised,
                               dataset_before |-> dataset, log_before |-> log])
              /\ turns' = turns + 1
              /\ streak' = IF failed THEN 0 ELSE IF continues THEN streak + 1 ELSE 1
              /\ grown' = IF failed THEN 0
                          ELSE (IF continues THEN grown ELSE 0)
                               + (IF t.append = "added" THEN 1 ELSE 0)
    /\ UNCHANGED <<entities_str, ret, loaded, pc, call, file_exists>>

NextChat == Chat

SpecChat == InitChat /\ [][NextChat]_vars

\* the last turn, when it matched a row
Matched == turn # None /\ turn[1].result # None
\* maximal digit runs of s as <<first, last>> index pairs
DigitSpans(s) ==
    {p \in (1..Len(s)) \X (1..Len(s)) :
        /\ p[1] <= p[2]
        /\ \A k \in p[1]..p[2] : IsDigit(s[k])
        /\ (p[1] = 1 \/ ~IsDigit(s[p[1] - 1]))
        /\ (p[2] = Len(s) \/ ~IsDigit(s[p[2] + 1]))}
FirstSpan(S) == CHOOSE p \in S : \A q \in S : p[1] <= q[1]
\* the digit runs of ents that directly follow "MONEY:"
MoneySpans(ents) ==
    {p \in DigitSpans(ents) :
        /\ p[1] > Len(MoneyColon)
        /\ SubSeq(ents, p[1] - Len(MoneyColon), p[1] - 1) = MoneyColon}
\* the value of the first MONEY: segment of ents: what follows the first
\* "MONEY:" up to the next "|"
MoneySegmentValue(ents) ==
    LET at == {i \in 1..(Len(ents) - Len(MoneyColon) + 1) :
                  SubSeq(ents, i, i + Len(MoneyColon) - 1) = MoneyColon}
        i == CHOOSE x \in at : \A y \in at : x <= y
    IN  split_on(Drop(ents, i + Len(MoneyColon) - 1), "|")[1]
\* rows of the corpus the turn started from that hold ACCOUNT_NUMBER:<acct>
\* and a MONEY: segment / a MONEY: followed by a digit
HoldsBoth(t, acct) ==
    {i \in 1..Len(t.dataset_before) :
        /\ Contains(t.dataset_before[i].entities, AccountColon \o acct)
        /\ Contains(t.dataset_before[i].entities, MoneyColon)}
HoldsBothNumeric(t, acct) ==
    {i \in HoldsBoth(t, acct) : MoneySpans(t.dataset_before[i].entities) # {}}

\* the example of the claim: row ACCOUNT_NUMBER:123456|MONEY:500 with an
\* empty response and an utterance containing 123456
PairingExample(t) ==
    (/\ t.result[1].entities = Acct123456Money500
     /\ t.result[1].response = <<>>
     /\ Contains(t.message, <<"1","2","3","4","5","6">>)) =>
        /\ Get(t.extracted, "account_number") = <<"1","2","3","4","5","6">>
        /\ Contains(t.reply, <<"5","0","0">>)

\* C8 (as stated): response verbatim, else the extracted amount, else the
\* MONEY value of the first row holding both ACCOUNT_NUMBER:<acct> and a
\* MONEY: segment, else the first digit run of the utterance, else empty.
ReplyPriorityFirstHolder ==
    Matched =>
        LET t == turn[1]
            acct == Get(t.extracted, "account_number")
            amount == Get(t.extracted, "amount")
            holders == HoldsBoth(t, acct)
        IN  /\ t.reply =
                 IF t.result[1].response # <<>> THEN t.result[1].response
                 ELSE IF amount # <<>> THEN Balance(amount)
                 ELSE IF acct # <<>> /\ holders # {}
                      THEN Balance(MoneySegmentValue(t.dataset_before[First(holders)].entities))
                 ELSE IF DigitSpans(t.message) # {}
                      THEN Balance(SubSeq(t.message, FirstSpan(DigitSpans(t.message))[1],
                                          FirstSpan(DigitSpans(t.message))[2]))
                 ELSE <<>>
            /\ PairingExample(t)

\* C8 (amended): as stated, except that the pairing row is the first row
\* whose annotation holds ACCOUNT_NUMBER:<acct> and a MONEY: that is
\* directly followed by digits, and the value used is the first such digit
\* run of that annotation; rows whose MONEY: is not followed by a digit are
\* passed over.
ReplyPriorityNumericHolder ==
    Matched =>
        LET t == turn[1]
            acct == Get(t.extracted, "account_number")
            amount == Get(t.extracted, "amount")
            holders == HoldsBothNumeric(t, acct)
        IN  /\ t.reply =
                 IF t.result[1].response # <<>> THEN t.result[1].response
                 ELSE IF amount # <<>> THEN Balance(amount)
                 ELSE IF acct # <<>> /\ holders # {}
                      THEN LET ents == t.dataset_before[First(holders)].entities
                               p == FirstSpan(MoneySpans(ents))
                           IN  Balance(SubSeq(ents, p[1], p[2]))
                 ELSE IF DigitSpans(t.message) # {}
                      THEN Balance(SubSeq(t.message, FirstSpan(DigitSpans(t.message))[1],
                                          FirstSpan(DigitSpans(t.message))[2]))
                 ELSE <<>>
            /\ PairingExample(t)

\* "my balance" matched the account-only row, the row with MONEY:n/a was
\* passed over and the reply carries the 500 of the third row
ReplyPriorityWitness ==
    /\ Matched
    /\ turn[1].message = MyBalance
    /\ turn[1].dataset_before = <<AcctOnlyRow, BadMoneyRow, AccountRow>>
    /\ turn[1].reply = Balance(<<"5","0","0">>)

\* C4: when the append of a matched turn raises, the handler still returns
\* the reply and intent of the turn, and neither the in-memory corpus nor
\* the log differs from what it was before the turn.
AppendFailureLeavesNoTrace ==
    (turn # None /\ turn[1].append = "raised") =>
        /\ ~turn[1].raised
        /\ turn[1].reply = chat(user_message, turn[1].dataset_before, turn[1].log_before, "ok").reply
        /\ turn[1].intent = turn[1].result[1].intent
        /\ dataset = turn[1].dataset_before
        /\ log = turn[1].log_before

\* The part of C4 the handler does guarantee: the exception is swallowed,
\* the reply and the intent are those of the turn and the in-memory corpus
\* is untouched.
AppendFailureSwallowed ==
    (turn # None /\ turn[1].append = "raised") =>
        /\ ~turn[1].raised
        /\ turn[1].reply = chat(user_message, turn[1].dataset_before, turn[1].log_before, "ok").reply
        /\ turn[1].intent = turn[1].result[1].intent
        /\ dataset = turn[1].dataset_before

\* C10: from the third consecutive failure-free turn carrying the same
\* utterance on, no row is appended, and at most two rows are appended
\* during such a run of turns.
RepeatReachesFixedPoint ==
    /\ (streak >= 3 => turn[1].append # "added")
    /\ grown <= 2

\* the same utterance three times in a row: two rows appended, then none
RepeatWitness ==
    /\ streak = 3
    /\ grown = 2
    /\ turn[1].append = "duplicate"

(***************************************************************************)
(* SpecAppend: append_to_dataset_row called again and again by one caller. *)
(***************************************************************************)
Money500Acct123456 ==
    MoneyColon \o <<"5","0","0","|">> \o AccountColon \o <<"1","2","3","4","5","6">>
AppendArgs ==
    { Row(BalanceFor123456, "check_balance", Balance(<<"5","0","0">>), Money500Acct123456),
      Row(BalanceFor123456, "check_balance", <<"S","u","r","e">>, Money500Acct123456),
      Row(BalanceFor123456, "loan_inquiry", <<"S","u","r","e">>, Money500Acct123456),
      Row(BalanceFor123456, "check_balance", <<"S","u","r","e">>, MoneyColon \o <<"5","0","0">>),
      AccountRow }
AppendCorpora ==
    { <<>>, <<AccountRow>>, <<AccountRow, AccountRow>>, <<CheckBalanceRow, AccountRow>> }

InitAppend ==
    /\ user_message = <<>>
    /\ entities_str = <<>>
    /\ ret = None
    /\ dataset \in AppendCorpora
    /\ loaded = dataset
    /\ log = LogOf(dataset)
    /\ turn = None
    /\ turns = 0
    /\ streak = 0
    /\ grown = 0
    /\ pc = NoThreads
    /\ call = NoThreads
    /\ file_exists = NoThreads

AppendCall ==
    /\ turns < MaxTurns
    /\ \E a \in AppendArgs, io \in IOOutcomes :
        \E r \in {append_to_dataset_row(a.text, a.intent, a.response, a.entities,
                                        dataset, log, io)} :
            /\ dataset' = r.dataset
            /\ log' = r.log
            /\ turn' = Some([args |-> a, status |-> r.status,
                             dataset_before |-> dataset, log_before |-> log])
            /\ turns' = turns + 1
    /\ UNCHANGED <<user_message, entities_str, ret, loaded, streak, grown, pc, call,
                   file_exists>>

NextAppend == AppendCall

SpecAppend == InitAppend /\ [][NextAppend]_vars

SameTuple(r, a) == r.text = a.text /\ r.intent = a.intent /\ r.entities = a.entities
Holders(rows, a) == {k \in 1..Len(rows) : SameTuple(rows[k], a)}
NoDuplicates(rows) ==
    \A i, j \in 1..Len(rows) : SameTuple(rows[i], rows[j]) => i = j

\* C3: a call that returns reports "added" exactly when no in-memory row
\* had its (text, intent, entities); then the corpus and the log gain that
\* one row; otherwise it reports "not added" and leaves corpus and log as
\* they were, whatever its response; so a corpus loaded without duplicates
\* never holds two rows with the same (text, intent, entities).
AppendDeduplicates ==
    /\ (turn # None /\ turn[1].status # "raised") =>
          LET t == turn[1]
          IN  IF Holders(t.dataset_before, t.args) # {}
              THEN /\ t.status = "duplicate"
                   /\ dataset = t.dataset_before
                   /\ log = t.log_before
              ELSE /\ t.status = "added"
                   /\ dataset = Append(t.dataset_before, t.args)
                   /\ log = IF t.log_before = <<>> THEN <<Header, t.args>>
                            ELSE Append(t.log_before, t.args)
                   /\ Cardinality(Holders(dataset, t.args)) = 1
    /\ NoDuplicates(loaded) => NoDuplicates(dataset)

\* the same tuple was appended a second time with another response and
\* was refused: the corpus holds the row of the first call only
AppendWitness ==
    /\ turn # None
    /\ turn[1].status = "duplicate"
    /\ Len(dataset) = Len(loaded) + 1
    /\ SameTuple(dataset[Len(dataset)], turn[1].args)
    /\ dataset[Len(dataset)].response # turn[1].args.response

(***************************************************************************)
(* SpecThreads: chat turns served by concurrent threads of the server, each *)
(* inside append_to_dataset_row; a step is one statement of the function.  *)
(* The text written inside the with-block is buffered and reaches the file *)
(* in one write when the block closes it.                                  *)
(***************************************************************************)
NThreads == 2
Threads == 1..NThreads
ThreadArgs ==
    { Row(BalanceFor123456, "check_balance", Balance(<<"5","0","0">>), Money500Acct123456),
      Row(MyBalance, "check_balance", Balance(<<"5","0","0">>), Money500Acct123456),
      Row(LoanCard, "loan_inquiry", <<"L","o","a","n","s">>, MoneyColon \o <<"7">>) }
ThreadCorpora == { <<>>, <<CheckBalanceRow>> }

InitThreads ==
    /\ user_message = <<>>
    /\ entities_str = <<>>
    /\ ret = None
    /\ dataset \in ThreadCorpora
    /\ loaded = dataset
    /\ log = LogOf(dataset)
    /\ turn = None
    /\ turns = 0
    /\ streak = 0
    /\ grown = 0
    /\ pc = [t \in Threads |-> "idle"]
    /\ call = [t \in Threads |-> Header]
    /\ file_exists = [t \in Threads |-> FALSE]

Untouched == UNCHANGED <<user_message, entities_str, ret, loaded, turn, turns, streak, grown>>

\* line 319: a turn calls append_to_dataset_row
Enter(t) ==
    /\ pc[t] = "idle"
    /\ \E a \in ThreadArgs : call' = [call EXCEPT ![t] = a]
    /\ pc' = [pc EXCEPT ![t] = "stat"]
    /\ UNCHANGED <<dataset, log, file_exists>>
    /\ Untouched

\* lines 322-323
Stat(t) ==
    /\ pc[t] = "stat"
    /\ file_exists' = [file_exists EXCEPT ![t] = (log # <<>>)]
    /\ pc' = [pc EXCEPT ![t] = "check"]
    /\ UNCHANGED <<dataset, log, call>>
    /\ Untouched

\* lines 326-328
CheckDuplicate(t) ==
    /\ pc[t] = "check"
    /\ pc' = [pc EXCEPT ![t] =
                IF is_duplicate(dataset, call[t].text, call[t].intent, call[t].response,
                                call[t].entities)
                THEN "returned_false" ELSE "write"]
    /\ UNCHANGED <<dataset, log, call, file_exists>>
    /\ Untouched

\* lines 331-335
WriteLog(t) ==
    /\ pc[t] = "write"
    /\ log' = log \o records_to_write(file_exists[t], call[t])
    /\ pc' = [pc EXCEPT ![t] = "append"]
    /\ UNCHANGED <<dataset, call, file_exists>>
    /\ Untouched

\* lines 338-339
AppendInMemory(t) ==
    /\ pc[t] = "append"
    /\ dataset' = Append(dataset, call[t])
    /\ pc' = [pc EXCEPT ![t] = "returned_true"]
    /\ UNCHANGED <<log, call, file_exists>>
    /\ Untouched

NextThreads ==
    \E t \in Threads :
        Enter(t) \/ Stat(t) \/ CheckDuplicate(t) \/ WriteLog(t) \/ AppendInMemory(t)

SpecThreads == InitThreads /\ [][NextThreads]_vars

Entered == {t \in Threads : pc[t] # "idle"}
AllReturned == \A t \in Threads : pc[t] \in {"returned_true", "returned_false"}

\* C1: when concurrent turns append the same (text, intent, entities), not
\* yet in the corpus, neither the in-memory corpus nor the log ever holds
\* two rows for it, and once all have returned exactly one reported "added".
OneRowPerTuple ==
    \A t \in Entered :
        Holders(loaded, call[t]) = {} =>
            /\ Cardinality(Holders(dataset, call[t])) <= 1
            /\ Cardinality(Holders(log, call[t])) <= 1
            /\ AllReturned =>
                  Cardinality({u \in Threads : /\ SameTuple(call[u], call[t])
                                               /\ pc[u] = "returned_true"}) = 1

\* C2: when N concurrent turns append pairwise distinct tuples not yet in
\* the corpus, then once all have returned the log holds what it held
\* before, one header line if it was missing or empty, and exactly the N new
\* rows, each once.
LogGainsExactlyTheRows ==
    (/\ AllReturned
     /\ \A t, u \in Threads : SameTuple(call[t], call[u]) => t = u
     /\ \A t \in Threads : Holders(loaded, call[t]) = {}) =>
        /\ Len(log) = 1 + Len(loaded) + NThreads
        /\ SubSeq(log, 1, 1 + Len(loaded)) = <<Header>> \o loaded
        /\ \A t \in Threads :
              Cardinality({k \in 1..Len(log) : log[k] = call[t]}) = 1

====
